---- MODULE Spec2Model ----
(***************************************************************************)
(* Model of the MovieSwipe authentication backend: the users collection    *)
(* (mongoose schema with its unique indexes), the Google sign-in flow of   *)
(* UserService, the JWT session gate and the profile handlers.  Every      *)
(* request is a process whose steps are the database operations it awaits; *)
(* steps of different requests interleave freely.  A step runs the code up *)
(* to the answer of the next awaited query, so the synchronous code around *)
(* a query (jwt.verify, validateBody, building updateData, signing the     *)
(* token) belongs to the step of that query.  createdAt is not modelled:   *)
(* it is written once by the insert and no handler reads it.               *)
(*                                                                         *)
(* Spec starts from an empty collection.  WarmSpec starts a server on a    *)
(* collection in use and runs the clock past the validity window of a      *)
(* token.  RemovalSpec adds the deletion of a document from outside (no    *)
(* handler deletes) and the optionalAuthentication middleware, which no    *)
(* route mounts.                                                           *)
(***************************************************************************)
EXTENDS Integers, Sequences, FiniteSets, TLC

\* ---------------------------------------------------------------- bounds
MaxUsers == 2        \* documents the collection may hold
MaxClock == 1        \* the clock runs over 0..MaxClock (unit: one week)
MaxReqs == 3         \* requests served in one behaviour
MaxWarmClock == 2    \* the clock of a server started on a database in use

Procs == {"r1", "r2"}                 \* requests in flight at the same time
\* the Google accounts that sign in: subject id and e-mail claim
Accounts == {<<"g1", "A@x.io">>, <<"g2", "a@x.io">>, <<"g2", "b@x.io">>}
Emails == {"a@x.io", "A@x.io", "b@x.io"}   \* e-mails asked of GET /exists
Names == {"", "A", " B"}              \* name claims ("" = claim missing)
BodyNames == {"", " ", " B"}          \* names a profile update may carry
Pictures == {"http://p"}              \* picture URLs

\* ------------------------------------------------------ program constants
jwtExpiresIn == 1                     \* "7d", in clock units
NameMaxLength == 100
jwtSecret == "secret"
Null == 0                             \* a query that finds no document

\* An optional value is <<>> (undefined, key absent) or <<v>>.
Undefined == <<>>
Some(v) == <<v>>

\* ------------------------------------------------------- string helpers
LowerChar(c) == IF c = "A" THEN "a" ELSE IF c = "B" THEN "b" ELSE c

ToLowerMutant(s) == s

RECURSIVE ToLower(_)
ToLower(s) ==
    IF Len(s) = 0 THEN s
    ELSE LowerChar(SubSeq(s, 1, 1)) \o ToLower(SubSeq(s, 2, Len(s)))

RECURSIVE Trim(_)
Trim(s) ==
    IF Len(s) > 0 /\ SubSeq(s, 1, 1) = " " THEN Trim(SubSeq(s, 2, Len(s)))
    ELSE IF Len(s) > 0 /\ SubSeq(s, Len(s), Len(s)) = " "
         THEN Trim(SubSeq(s, 1, Len(s) - 1))
    ELSE s

Min(S) == CHOOSE x \in S : \A y \in S : x <= y

\* two e-mail addresses that differ in letter case only (used by the properties)
RECURSIVE SameEmail(_, _)
SameEmail(x, y) ==
    /\ Len(x) = Len(y)
    /\ Len(x) > 0 =>
          /\ LowerChar(SubSeq(x, 1, 1)) = LowerChar(SubSeq(y, 1, 1))
          /\ SameEmail(SubSeq(x, 2, Len(x)), SubSeq(y, 2, Len(y)))

\* ------------------------------------------------------------ variables
VARIABLES
    users,     \* the users collection: users[i] is the document with _id = i
    now,       \* the clock
    issued,    \* session tokens handed out so far
    pc,        \* pc[p]: where request p stands
    req,       \* req[p]: what request p still holds of its input
    doc,       \* doc[p]: the mongoose document request p holds in memory
    res,       \* res[p]: the response request p sent last
    obs,       \* obs[p]: what the collection held when request p arrived
    nreq       \* requests started so far

vars == <<users, now, issued, pc, req, doc, res, obs, nreq>>

Ids == 1..Len(users)

\* -------------------------------------------------------------- tokens
generateJwtTokenMutant(userId, email, t) ==
    [userId |-> userId, email |-> email, iat |-> t, exp |-> t, sig |-> jwtSecret]

\* jwt.sign({userId, email}, secret, {expiresIn})
generateJwtToken(userId, email, t) ==
    [userId |-> userId, email |-> email, iat |-> t, exp |-> t + jwtExpiresIn,
     sig |-> jwtSecret]

VerifyErrorMutant(tok, t) ==
    IF tok.sig # jwtSecret THEN "JsonWebTokenError" ELSE "none"

\* jwt.verify's outcome: the signature is checked first, then the expiry
\* (the token is expired from the instant exp on)
VerifyError(tok, t) ==
    IF tok.sig # jwtSecret THEN "JsonWebTokenError"
    ELSE IF t >= tok.exp THEN "TokenExpiredError"
    ELSE "none"

\* jwt.verify: the signature matches and the token has not expired
verifyJwtToken(tok, t) == VerifyError(tok, t) = "none"

\* the payload jwt.verify returns for a token it accepts
JwtPayload(tok) ==
    [userId |-> tok.userId, email |-> tok.email, iat |-> tok.iat, exp |-> tok.exp]

\* --------------------------------------------------- the users collection
findByGoogleIdMutant(us, googleId) ==
    LET S == {i \in 1..Len(us) : us[i].googleId = googleId}
    IN IF S = {} THEN Null ELSE Min(S)

findByGoogleId(us, googleId) ==
    LET S == {i \in 1..Len(us) : us[i].googleId = googleId /\ us[i].isActive}
    IN IF S = {} THEN Null ELSE Min(S)

findByEmail(us, email) ==
    LET S == {i \in 1..Len(us) : us[i].email = ToLower(email) /\ us[i].isActive}
    IN IF S = {} THEN Null ELSE Min(S)

\* Model.exists resolves to the _id of a matching document, or to null
\* (Mongoose 6 and later; the README asks for Node.js 18+ and MongoDB 5.0+)
existsByEmail(us, email) == findByEmail(us, email)

\* JSON.stringify of what Model.exists resolved to
ExistsJson(r) == IF r = Null THEN "null" ELSE "{_id:" \o ToString(r) \o "}"

\* what is left at an _id whose document was deleted from the collection
Removed ==
    [googleId |-> "", email |-> "", name |-> "", picture |-> Undefined,
     isActive |-> FALSE, updatedAt |-> 0]

findById(us, id) == IF id \in 1..Len(us) /\ us[id] # Removed THEN id ELSE Null

NewUserMutant(userData) ==
    [googleId |-> userData.googleId,
     email |-> ToLower(Trim(userData.email)),
     name |-> Trim(userData.name),
     picture |-> userData.picture,
     isActive |-> FALSE]

\* new User(userData): the schema's setters (lowercase, trim) and defaults
NewUser(userData) ==
    [googleId |-> userData.googleId,
     email |-> ToLower(Trim(userData.email)),
     name |-> Trim(userData.name),
     picture |-> userData.picture,
     isActive |-> TRUE]

ValidUserMutant(d) ==
    /\ d.googleId # ""
    /\ d.email # ""
    /\ Len(d.name) <= NameMaxLength

\* the schema's validators, run by save()
ValidUser(d) ==
    /\ d.googleId # ""
    /\ d.email # ""
    /\ d.name # ""
    /\ Len(d.name) <= NameMaxLength

\* the unique indexes on googleId and on email
DuplicateKeyMutant(us, d) == \E i \in 1..Len(us) : us[i].email = d.email

DuplicateKey(us, d) ==
    \E i \in 1..Len(us) : us[i].googleId = d.googleId \/ us[i].email = d.email

\* the document as the collection stores it
Stored(d, t) == d @@ [updatedAt |-> t]

\* the paths save() sends: those assigned a value that differs from the one loaded
Modified(orig, d) ==
    {f \in {"name", "picture", "isActive"} : d[f] # orig[f]}

SaveExistingMutant(us, id, orig, d, t) == [us EXCEPT ![id] = [d EXCEPT !.updatedAt = t]]

\* save() of a loaded document: $set of the modified paths, and updatedAt
SaveExisting(us, id, orig, d, t) ==
    IF Modified(orig, d) = {} THEN us
    ELSE [us EXCEPT ![id] =
            [f \in DOMAIN us[id] |->
                IF f \in Modified(orig, d) THEN d[f]
                ELSE IF f = "updatedAt" THEN t
                ELSE us[id][f]]]

ApplyUpdateMutant(d, updateData) ==
    [d EXCEPT
        !.name = IF updateData.name # Undefined THEN Trim(updateData.name[1]) ELSE @,
        !.picture = updateData.picture,
        !.isActive = IF updateData.isActive # Undefined THEN updateData.isActive[1] ELSE @]

\* UserService.updateUser's assignments
ApplyUpdate(d, updateData) ==
    [d EXCEPT
        !.name = IF updateData.name # Undefined THEN Trim(updateData.name[1]) ELSE @,
        !.picture = IF updateData.picture # Undefined THEN updateData.picture ELSE @,
        !.isActive = IF updateData.isActive # Undefined THEN updateData.isActive[1] ELSE @]

DeactivatedMutant(d) == d

\* UserService.deactivateUser's assignment
Deactivated(d) == [d EXCEPT !.isActive = FALSE]

EmailVerifiedMutant(a) == TRUE

\* the email_verified check of UserService.authenticateWithGoogle
EmailVerified(a) == a.email_verified

transformUserToDto(id, d) ==
    [id |-> id, email |-> d.email, name |-> d.name, picture |-> d.picture,
     isActive |-> d.isActive, updatedAt |-> d.updatedAt]

\* the in-memory document after a save() that sent something
Touched(orig, d, t) ==
    IF Modified(orig, d) = {} THEN d ELSE [d EXCEPT !.updatedAt = t]

\* ------------------------------------------------------ requests, responses
NoToken == [userId |-> 0, email |-> "", iat |-> 0, exp |-> 0, sig |-> "none"]
NoAssertion ==
    [verifies |-> FALSE, sub |-> "", email |-> "", email_verified |-> FALSE,
     name |-> "", picture |-> Undefined]
NoBody == [name |-> Undefined, picture |-> Undefined, isActive |-> Undefined]
NoReq == [op |-> "none", assertion |-> NoAssertion, userId |-> Null, body |-> NoBody]
NoDoc == [id |-> Null]
NoRes == [op |-> "none", userId |-> Null, status |-> 0, error |-> "",
          token |-> NoToken, user |-> Undefined, exists |-> "", next |-> 0]
NoObs == [subKnown |-> FALSE, emailHeld |-> FALSE]

\* what verifyGoogleToken can return: a rejected id token, or the payload
Assertions ==
    {NoAssertion} \cup
    {[verifies |-> TRUE, sub |-> acct[1], email |-> acct[2], email_verified |-> v,
      name |-> n, picture |-> pic] :
        acct \in Accounts, v \in BOOLEAN, n \in Names,
        pic \in {Undefined} \cup {Some(x) : x \in Pictures}}

\* a token signed with another key
ForgedToken ==
    [userId |-> 1, email |-> "a@x.io", iat |-> 0, exp |-> MaxClock + 1, sig |-> "forged"]

\* what the Authorization header can carry
Bearers == {NoToken, ForgedToken} \cup issued

\* the JSON bodies of PUT /profile
Bodies ==
    [name : {Undefined} \cup {Some(x) : x \in BodyNames},
     picture : {Undefined} \cup {Some(x) : x \in Pictures},
     isActive : {Undefined, Some(TRUE), Some(FALSE)}]

RECURSIVE Contains(_, _)
Contains(s, c) ==
    Len(s) > 0 /\ (SubSeq(s, 1, 1) = c \/ Contains(SubSeq(s, 2, Len(s)), c))

\* z.string().url(), on the strings used here
IsUrl(s) == Len(s) > 7 /\ SubSeq(s, 1, 7) = "http://"

\* z.string().email(), on the strings used here
IsEmail(s) == Contains(s, "@") /\ Contains(s, ".")

\* validateBody(UpdateUserSchema)
ValidUpdateBody(b) ==
    /\ b.name # Undefined => (Len(b.name[1]) >= 1 /\ Len(b.name[1]) <= NameMaxLength)
    /\ b.picture # Undefined => IsUrl(b.picture[1])

Free(p) == pc[p] \in {"idle", "done"}

\* a new request takes the first free slot (the slots are interchangeable)
Arrive(p) ==
    /\ Free(p)
    /\ p = "r2" => ~Free("r1")
    /\ nreq < MaxReqs
    /\ nreq' = nreq + 1

Respond(p, r) ==
    /\ pc' = [pc EXCEPT ![p] = "done"]
    /\ res' = [res EXCEPT ![p] = r]
    /\ req' = [req EXCEPT ![p] = NoReq]
    /\ doc' = [doc EXCEPT ![p] = NoDoc]
    /\ obs' = [obs EXCEPT ![p] = NoObs]

Continue(p, at, r, d, o) ==
    /\ pc' = [pc EXCEPT ![p] = at]
    /\ res' = [res EXCEPT ![p] = NoRes]
    /\ req' = [req EXCEPT ![p] = r]
    /\ doc' = [doc EXCEPT ![p] = d]
    /\ obs' = [obs EXCEPT ![p] = o]

\* a response; userId is the record the request was about, when it got that far
Reply(op, userId, status, error) ==
    [NoRes EXCEPT !.op = op, !.userId = userId, !.status = status, !.error = error]

Init ==
    /\ users = <<>>
    /\ now = 0
    /\ issued = {}
    /\ pc = [p \in Procs |-> "idle"]
    /\ req = [p \in Procs |-> NoReq]
    /\ doc = [p \in Procs |-> NoDoc]
    /\ res = [p \in Procs |-> NoRes]
    /\ obs = [p \in Procs |-> NoObs]
    /\ nreq = 0

\* ------------------------------------------------------ POST /auth/google
\* UserService.authenticateWithGoogle up to the answer of User.findByGoogleId
AuthFind(p, a) ==
    /\ Arrive(p)
    /\ IF ~a.verifies
         THEN Respond(p, Reply("auth", Null, 401, "Failed to verify Google token"))
       ELSE IF ~EmailVerified(a)
         THEN Respond(p, Reply("auth", Null, 401, "Email not verified with Google"))
       ELSE LET u == findByGoogleId(users, a.sub) IN
            Continue(p, IF u = Null THEN "create_check" ELSE "upd_load",
                     IF u = Null
                       THEN [NoReq EXCEPT !.op = "auth", !.assertion = a]
                       ELSE [NoReq EXCEPT
                               !.op = "auth", !.userId = u,
                               !.body = [name |-> Some(a.name), picture |-> a.picture,
                                         isActive |-> Undefined]],
                     NoDoc,
                     [subKnown |-> \E i \in Ids : users[i].googleId = a.sub,
                      emailHeld |-> \E i \in Ids :
                           /\ SameEmail(users[i].email, a.email)
                           /\ users[i].isActive
                           /\ users[i].googleId # a.sub])
    /\ UNCHANGED <<users, now, issued>>

\* UserService.createUser: the answer of User.findByEmail
AuthCreateCheck(p) ==
    /\ pc[p] = "create_check"
    /\ IF findByEmail(users, req[p].assertion.email) # Null
         THEN Respond(p, Reply("auth", Null, 401, "User already exists with this email"))
         ELSE Continue(p, "create_save", req[p], doc[p], obs[p])
    /\ UNCHANGED <<users, now, issued, nreq>>

\* UserService.createUser: new User(userData).save(), then the session token
AuthCreateSave(p) ==
    LET a == req[p].assertion
        d == NewUser([googleId |-> a.sub, email |-> a.email, name |-> a.name,
                      picture |-> a.picture])
        id == Len(users) + 1
        tok == generateJwtToken(id, d.email, now)
    IN
    /\ pc[p] = "create_save"
    /\ IF ~ValidUser(d)
         THEN /\ Respond(p, Reply("auth", Null, 401, "User validation failed"))
              /\ UNCHANGED <<users, issued>>
       ELSE IF DuplicateKey(users, d)
         THEN /\ Respond(p, Reply("auth", Null, 401, "E11000 duplicate key"))
              /\ UNCHANGED <<users, issued>>
       ELSE /\ Len(users) < MaxUsers
            /\ users' = Append(users, Stored(d, now))
            /\ issued' = issued \cup {tok}
            /\ Respond(p, [Reply("auth", id, 200, "") EXCEPT
                   !.token = tok,
                   !.user = Some(transformUserToDto(id, Stored(d, now)))])
    /\ UNCHANGED <<now, nreq>>

\* ------------------------------------------------- the session gate
GatePassesMutant(tok, us, t) ==
    /\ tok # NoToken
    /\ verifyJwtToken(tok, t)
    /\ findById(us, tok.userId) # Null

\* authenticateToken: TRUE when the request goes on to its handler
GatePasses(tok, us, t) ==
    /\ tok # NoToken
    /\ verifyJwtToken(tok, t)
    /\ findById(us, tok.userId) # Null
    /\ us[tok.userId].isActive

\* the message of the gate's 401: no token, jwt.verify threw (TokenExpiredError
\* is a JsonWebTokenError), or the record is missing or inactive
GateMessage(tok, t) ==
    IF tok = NoToken THEN "Access token is required"
    ELSE IF VerifyError(tok, t) # "none" THEN "Invalid token"
    ELSE "Invalid or expired token"

\* a request to a route behind authenticateToken that the gate answers itself
GateReject(p, op, tok) ==
    /\ Arrive(p)
    /\ op \in {"signout", "get", "update", "deactivate"}
    /\ tok \in Bearers
    /\ ~GatePasses(tok, users, now)
    /\ Respond(p, Reply(op, IF verifyJwtToken(tok, now) THEN tok.userId ELSE Null,
                         401, GateMessage(tok, now)))
    /\ UNCHANGED <<users, now, issued>>

\* POST /auth/signout
SignOut(p, tok) ==
    /\ Arrive(p)
    /\ tok \in Bearers
    /\ GatePasses(tok, users, now)
    /\ Respond(p, Reply("signout", tok.userId, 200, ""))
    /\ UNCHANGED <<users, now, issued>>

\* GET /profile: the gate
GetGate(p, tok) ==
    /\ Arrive(p)
    /\ tok \in Bearers
    /\ GatePasses(tok, users, now)
    /\ Continue(p, "get_load", [NoReq EXCEPT !.op = "get", !.userId = tok.userId],
                NoDoc, NoObs)
    /\ UNCHANGED <<users, now, issued>>

\* UserController.getCurrentUser: the answer of UserService.getUserById
GetLoad(p) ==
    LET id == findById(users, req[p].userId) IN
    /\ pc[p] = "get_load"
    /\ IF id = Null
         THEN Respond(p, Reply("get", req[p].userId, 404, "USER_NOT_FOUND"))
         ELSE Respond(p, [Reply("get", id, 200, "") EXCEPT
                 !.user = Some(transformUserToDto(id, users[id]))])
    /\ UNCHANGED <<users, now, issued, nreq>>

\* PUT /profile: the gate, then validateBody(UpdateUserSchema)
UpdateGate(p, tok, b) ==
    /\ Arrive(p)
    /\ tok \in Bearers
    /\ b \in Bodies
    /\ GatePasses(tok, users, now)
    /\ IF ~ValidUpdateBody(b)
         THEN Respond(p, Reply("update", tok.userId, 400, "Validation failed"))
         ELSE Continue(p, "upd_load",
                  [NoReq EXCEPT !.op = "update", !.userId = tok.userId, !.body = b],
                  NoDoc, NoObs)
    /\ UNCHANGED <<users, now, issued>>

\* what a controller answers when its service call throws
CatchStatus(op) == IF op = "auth" THEN 401 ELSE 500

\* UserService.updateUser: the answer of User.findById, and the assignments
UpdateLoad(p) ==
    LET id == findById(users, req[p].userId) IN
    /\ pc[p] = "upd_load"
    /\ IF id = Null
         THEN Respond(p, Reply(req[p].op, req[p].userId, CatchStatus(req[p].op),
                               "User not found"))
         ELSE Continue(p, "upd_save", req[p],
                  [id |-> id, orig |-> users[id],
                   cur |-> ApplyUpdate(users[id], req[p].body)],
                  obs[p])
    /\ UNCHANGED <<users, now, issued, nreq>>

\* UserService.updateUser: user.save() (DocumentNotFoundError when the document
\* is gone); the sign-in then signs the session token
UpdateSave(p) ==
    LET d == doc[p]
        op == req[p].op
        saved == Touched(d.orig, d.cur, now)
        tok == generateJwtToken(d.id, saved.email, now)
    IN
    /\ pc[p] = "upd_save"
    /\ IF ~ValidUser(d.cur)
         THEN /\ Respond(p, Reply(op, d.id, CatchStatus(op), "User validation failed"))
              /\ UNCHANGED <<users, issued>>
       ELSE IF findById(users, d.id) = Null
         THEN /\ Respond(p, Reply(op, d.id, CatchStatus(op), "No document found"))
              /\ UNCHANGED <<users, issued>>
         ELSE /\ users' = SaveExisting(users, d.id, d.orig, d.cur, now)
              /\ issued' = IF op = "auth" THEN issued \cup {tok} ELSE issued
              /\ Respond(p, [Reply(op, d.id, 200, "") EXCEPT
                     !.token = IF op = "auth" THEN tok ELSE NoToken,
                     !.user = Some(transformUserToDto(d.id, saved))])
    /\ UNCHANGED <<now, nreq>>

\* DELETE /profile: the gate
DeactivateGate(p, tok) ==
    /\ Arrive(p)
    /\ tok \in Bearers
    /\ GatePasses(tok, users, now)
    /\ Continue(p, "deact_load",
                [NoReq EXCEPT !.op = "deactivate", !.userId = tok.userId],
                NoDoc, NoObs)
    /\ UNCHANGED <<users, now, issued>>

\* UserService.deactivateUser: the answer of User.findById, isActive = false
DeactivateLoad(p) ==
    LET id == findById(users, req[p].userId) IN
    /\ pc[p] = "deact_load"
    /\ IF id = Null
         THEN Respond(p, Reply("deactivate", req[p].userId, 500, "User not found"))
         ELSE Continue(p, "deact_save", req[p],
                  [id |-> id, orig |-> users[id],
                   cur |-> Deactivated(users[id])],
                  obs[p])
    /\ UNCHANGED <<users, now, issued, nreq>>

\* UserService.deactivateUser: user.save()
DeactivateSave(p) ==
    LET d == doc[p] IN
    /\ pc[p] = "deact_save"
    /\ IF findById(users, d.id) = Null
         THEN /\ Respond(p, Reply("deactivate", d.id, 500, "No document found"))
              /\ UNCHANGED users
         ELSE /\ users' = SaveExisting(users, d.id, d.orig, d.cur, now)
              /\ Respond(p, Reply("deactivate", d.id, 200, ""))
    /\ UNCHANGED <<now, issued, nreq>>

\* GET /exists?email=...
CheckUserExists(p, email) ==
    /\ Arrive(p)
    /\ IF ~IsEmail(email)
         THEN Respond(p, Reply("exists", Null, 400, "Query validation failed"))
         ELSE Respond(p, [Reply("exists", Null, 200, "") EXCEPT
                 !.exists = ExistsJson(existsByEmail(users, email))])
    /\ UNCHANGED <<users, now, issued>>

Tick ==
    /\ now < MaxClock
    /\ now' = now + 1
    /\ UNCHANGED <<users, issued, pc, req, doc, res, obs, nreq>>

Next ==
    \/ \E p \in Procs, a \in Assertions : AuthFind(p, a)
    \/ \E p \in Procs : AuthCreateCheck(p)
    \/ \E p \in Procs : AuthCreateSave(p)
    \/ \E p \in Procs, tok \in Bearers :
          \E op \in {"signout", "get", "update", "deactivate"} : GateReject(p, op, tok)
    \/ \E p \in Procs, tok \in Bearers : SignOut(p, tok)
    \/ \E p \in Procs, tok \in Bearers : GetGate(p, tok)
    \/ \E p \in Procs : GetLoad(p)
    \/ \E p \in Procs, tok \in Bearers, b \in Bodies : UpdateGate(p, tok, b)
    \/ \E p \in Procs : UpdateLoad(p)
    \/ \E p \in Procs : UpdateSave(p)
    \/ \E p \in Procs, tok \in Bearers : DeactivateGate(p, tok)
    \/ \E p \in Procs : DeactivateLoad(p)
    \/ \E p \in Procs : DeactivateSave(p)
    \/ \E p \in Procs, e \in Emails \cup {"nobody"} : CheckUserExists(p, e)
    \/ Tick

Spec == Init /\ [][Next]_vars

\* ---------------------------------------- a server started on a database in use
\* The collection already holds the record of account g1, and that account
\* still holds the session token of its last sign-in.
WarmUser ==
    Stored(NewUser([googleId |-> "g1", email |-> "A@x.io", name |-> "A",
                    picture |-> Undefined]), 0)

WarmInit ==
    /\ users = <<WarmUser>>
    /\ now = 0
    /\ issued = {generateJwtToken(1, WarmUser.email, 0)}
    /\ pc = [p \in Procs |-> "idle"]
    /\ req = [p \in Procs |-> NoReq]
    /\ doc = [p \in Procs |-> NoDoc]
    /\ res = [p \in Procs |-> NoRes]
    /\ obs = [p \in Procs |-> NoObs]
    /\ nreq = 0

\* the sign-ins that come in: verified, without a picture, with and without a
\* name claim
WarmAssertions ==
    {a \in Assertions :
        a.verifies /\ a.email_verified /\ a.picture = Undefined
        /\ a.name \in {"", "A"}}

\* the one body PUT /profile is sent with
WarmBodies == {[NoBody EXCEPT !.isActive = Some(TRUE)]}

Elapse ==
    /\ now < MaxWarmClock
    /\ now' = now + 1
    /\ UNCHANGED <<users, issued, pc, req, doc, res, obs, nreq>>

\* the requests carry tokens the server signed
WarmNext ==
    \/ \E p \in Procs, a \in WarmAssertions : AuthFind(p, a)
    \/ \E p \in Procs : AuthCreateCheck(p)
    \/ \E p \in Procs : AuthCreateSave(p)
    \/ \E p \in Procs, tok \in issued :
          \E op \in {"signout", "get", "update", "deactivate"} : GateReject(p, op, tok)
    \/ \E p \in Procs, tok \in issued : SignOut(p, tok)
    \/ \E p \in Procs, tok \in issued, b \in WarmBodies : UpdateGate(p, tok, b)
    \/ \E p \in Procs : UpdateLoad(p)
    \/ \E p \in Procs : UpdateSave(p)
    \/ \E p \in Procs, tok \in issued : DeactivateGate(p, tok)
    \/ \E p \in Procs : DeactivateLoad(p)
    \/ \E p \in Procs : DeactivateSave(p)
    \/ Elapse

WarmSpec == WarmInit /\ [][WarmNext]_vars

\* ------------------------------- documents deleted from outside, optional auth
\* a document is deleted from the collection by hand (no handler deletes)
Remove(i) ==
    /\ findById(users, i) # Null
    /\ users' = [users EXCEPT ![i] = Removed]
    /\ UNCHANGED <<now, issued, pc, req, doc, res, obs, nreq>>

optionalAuthenticationMutant(tok, us, t, fails) ==
    IF tok = NoToken THEN [user |-> Null, next |-> 1, status |-> 0]
    ELSE IF VerifyError(tok, t) # "none" THEN [user |-> Null, next |-> 1, status |-> 0]
    ELSE IF fails THEN [user |-> Null, next |-> 1, status |-> 0]
    ELSE IF findById(us, tok.userId) # Null
      THEN [user |-> tok.userId, next |-> 1, status |-> 0]
    ELSE [user |-> Null, next |-> 1, status |-> 0]

\* optionalAuthentication: the _id it puts in req.user (or none), the times it
\* calls next() and the status it sends (0: it sends no response); fails says
\* that User.findById rejects
optionalAuthentication(tok, us, t, fails) ==
    IF tok = NoToken THEN [user |-> Null, next |-> 1, status |-> 0]
    ELSE IF VerifyError(tok, t) # "none" THEN [user |-> Null, next |-> 1, status |-> 0]
    ELSE IF fails THEN [user |-> Null, next |-> 1, status |-> 0]
    ELSE IF findById(us, tok.userId) # Null /\ us[tok.userId].isActive
      THEN [user |-> tok.userId, next |-> 1, status |-> 0]
    ELSE [user |-> Null, next |-> 1, status |-> 0]

\* a request through optionalAuthentication, up to its call of next()
OptionalAuth(p, tok, fails) ==
    LET o == optionalAuthentication(tok, users, now, fails) IN
    /\ Arrive(p)
    /\ tok \in Bearers
    /\ Respond(p, [Reply("optional", o.user, o.status, "") EXCEPT !.next = o.next])
    /\ UNCHANGED <<users, now, issued>>

RemovalNext ==
    \/ WarmNext
    \/ \E p \in Procs, tok \in issued : GetGate(p, tok)
    \/ \E p \in Procs : GetLoad(p)
    \/ \E p \in Procs, tok \in Bearers, fails \in BOOLEAN : OptionalAuth(p, tok, fails)
    \/ \E i \in Ids : Remove(i)

RemovalSpec == WarmInit /\ [][RemovalNext]_vars

\* ===================================================================
\* Properties
\* ===================================================================
Gated == {"signout", "get", "update", "deactivate"}

\* request p is a sign-in on the create path and answers in this step
CreateAnswers(p) ==
    /\ pc[p] \in {"create_check", "create_save"}
    /\ pc'[p] = "done"

\* the sign-in p inserted one active record for its subject id and returned a
\* session token that verifies and carries that record's _id and email
CreatedOne(p) ==
    LET n == Len(users') IN
    /\ res'[p].status = 200
    /\ n = Len(users) + 1
    /\ \A i \in Ids : users'[i] = users[i]
    /\ users'[n].googleId = req[p].assertion.sub
    /\ users'[n].isActive
    /\ verifyJwtToken(res'[p].token, now')
    /\ res'[p].token.userId = n
    /\ res'[p].token.email = users'[n].email

\* the sign-in p answered 401, issued nothing and left the collection alone
Refused(p) ==
    /\ res'[p].status = 401
    /\ res'[p].token = NoToken
    /\ users' = users
    /\ issued' = issued

AssertedName(p) ==
    IF pc[p] \in {"create_check", "create_save"}
      THEN req[p].assertion.name ELSE req[p].body.name[1]
AssertedPicture(p) ==
    IF pc[p] \in {"create_check", "create_save"}
      THEN req[p].assertion.picture ELSE req[p].body.picture
KnownRecord(p) ==
    IF pc[p] \in {"create_check", "create_save"}
      THEN CHOOSE i \in Ids : users[i].googleId = req[p].assertion.sub
      ELSE req[p].userId

\* C2 as claimed (for assertions that carry a name): a verified sign-in whose
\* subject id already has a record, active or not, creates no second record,
\* keeps the record's external id and email, and sets its name and picture to
\* the assertion's, also when the assertion has no picture.
C2_Claim ==
    [][\A p \in Procs :
          (/\ req[p].op = "auth"
           /\ obs[p].subKnown
           /\ pc[p] \in {"create_check", "create_save", "upd_load", "upd_save"}
           /\ pc'[p] = "done"
           /\ Trim(AssertedName(p)) # "")
          => LET i == KnownRecord(p) IN
             /\ Len(users') = Len(users)
             /\ users'[i].googleId = users[i].googleId
             /\ users'[i].email = users[i].email
             /\ users'[i].name = Trim(AssertedName(p))
             /\ users'[i].picture = AssertedPicture(p)]_vars

\* C3: a sign-in whose assertion has email_verified = false answers 401 at
\* once, whatever its other claims, issues no token and leaves the collection
\* as it was.
C3_Unverified ==
    [][\A p \in Procs, a \in Assertions :
          (a.verifies /\ ~a.email_verified /\ AuthFind(p, a)) =>
             /\ pc'[p] = "done"
             /\ res'[p].op = "auth"
             /\ Refused(p)]_vars

C3_Witness ==
    \E p \in Procs :
       /\ pc[p] = "done"
       /\ res[p].op = "auth"
       /\ res[p].status = 401
       /\ res[p].error = "Email not verified with Google"
       /\ Len(users) > 0

\* C4: the collection never holds two records, active or not, with the same
\* external subject id.
C4_UniqueGoogleId ==
    \A i, j \in Ids : users[i].googleId = users[j].googleId => i = j

\* a create was refused by the unique index while a record was in place
C4_Witness ==
    \E p \in Procs :
       /\ pc[p] = "done"
       /\ res[p].error = "E11000 duplicate key"
       /\ \E i \in Ids : ~users[i].isActive

\* C5 as claimed: a sign-in that found no record for its subject id and then
\* loses the create to a concurrent sign-in for the same id still answers 200
\* with a token bound to the one record.
C5_Claim ==
    [][\A p \in Procs :
          (/\ CreateAnswers(p)
           /\ ~obs[p].subKnown
           /\ \E i \in Ids : users[i].googleId = req[p].assertion.sub)
          => /\ users' = users
             /\ res'[p].status = 200
             /\ res'[p].token.userId \in Ids
             /\ users[res'[p].token.userId].googleId = req[p].assertion.sub]_vars

\* C6: a sign-in for a never-seen subject id whose e-mail, in any letter case,
\* an active record of another subject id held when it arrived, answers 401,
\* issues no token, and no step of it changes the collection; while that
\* record is active when createUser looks the e-mail up, the answer is the
\* duplicate-email error.
C6_DuplicateEmail ==
    [][\A p \in Procs :
          (/\ pc[p] \in {"create_check", "create_save"}
           /\ ~obs[p].subKnown
           /\ obs[p].emailHeld
           /\ pc'[p] # pc[p])
          => /\ users' = users
             /\ pc'[p] = "done" => Refused(p)
             /\ (/\ pc[p] = "create_check"
                 /\ \E i \in Ids :
                       /\ SameEmail(users[i].email, req[p].assertion.email)
                       /\ users[i].isActive)
                => /\ pc'[p] = "done"
                   /\ res'[p].error = "User already exists with this email"]_vars

C6_Witness ==
    \E p \in Procs :
       /\ pc[p] = "done"
       /\ res[p].op = "auth"
       /\ res[p].error = "User already exists with this email"
       /\ Len(users) = 1

\* what the session gate is claimed to require of the bearer token
SessionValid(tok) ==
    /\ tok \in issued
    /\ now < tok.exp
    /\ tok.userId \in Ids
    /\ users[tok.userId].isActive

\* request p goes past the gate to its handler in this step
GateLetsThrough(p, tok) ==
    \/ SignOut(p, tok)
    \/ GetGate(p, tok)
    \/ DeactivateGate(p, tok)
    \/ \E b \in Bodies : UpdateGate(p, tok, b)

\* C7: the gate lets a request through exactly when its token was signed by
\* the server, has not expired and refers to a record that exists and is
\* active at that moment; otherwise it answers 401, the handler does not run
\* and the collection is unchanged.
C7_Gate ==
    [][\A p \in Procs :
          (/\ Free(p)
           /\ nreq' = nreq + 1
           /\ res'[p].op \in Gated \/ req'[p].op \in Gated) =>
             \A tok \in Bearers :
                /\ SessionValid(tok) \/ ~GateLetsThrough(p, tok)
                /\ SessionValid(tok) => \A op \in Gated : ~GateReject(p, op, tok)
                /\ (\E op \in Gated : GateReject(p, op, tok)) =>
                      /\ pc'[p] = "done"
                      /\ res'[p].status = 401
                      /\ users' = users]_vars

\* the gate has turned away a second deactivateProfile: its token is signed and
\* unexpired, the record it names is inactive
C7_Witness ==
    \E p \in Procs :
       /\ pc[p] = "done"
       /\ res[p].op = "deactivate"
       /\ res[p].status = 401
       /\ res[p].userId \in Ids
       /\ ~users[res[p].userId].isActive

\* a getProfile arrives with a signed, unexpired token of an inactive record
GetOfInactive(p, tok) ==
    /\ nreq' = nreq + 1
    /\ tok \in issued
    /\ verifyJwtToken(tok, now)
    /\ ~users[tok.userId].isActive
    /\ GateReject(p, "get", tok) \/ GetGate(p, tok)

\* C8 as claimed: after a deactivateProfile made with a session, a getProfile
\* with that session answers 404 NotFound.
C8_Original ==
    [][\A p \in Procs, tok \in Bearers :
          (/\ GetOfInactive(p, tok)
           /\ res[p].op = "deactivate"
           /\ res[p].status = 200
           /\ res[p].userId = tok.userId)
          => res'[p].status = 404]_vars

\* C8 amended: a deactivateProfile that loaded the record as active leaves its
\* active flag false when it saves, and every getProfile presented with a
\* session of a record that is inactive is answered 401 by the session gate,
\* without a profile.
C8_Amended ==
    [][/\ \A p \in Procs :
             (pc[p] = "deact_save" /\ doc[p].orig.isActive /\ pc'[p] = "done") =>
                /\ ~users'[doc[p].id].isActive
                /\ res'[p].status = 200
       /\ \A p \in Procs, tok \in Bearers :
             GetOfInactive(p, tok) =>
                /\ pc'[p] = "done"
                /\ res'[p].status = 401
                /\ res'[p].user = Undefined]_vars

\* a getProfile for a deactivated record has been answered 401
C8_Witness ==
    \E p \in Procs :
       /\ pc[p] = "done"
       /\ res[p].op = "get"
       /\ res[p].status = 401
       /\ res[p].userId \in Ids
       /\ ~users[res[p].userId].isActive

\* C9 as claimed: a record whose active flag is false never gets it back.
C9_Claim ==
    [][\A i \in Ids : ~users[i].isActive => ~users'[i].isActive]_vars

\* C10: the save of an updateProfile keeps every field the body does not
\* carry, never changes external id or email nor any other record, and with an
\* empty body changes nothing but (possibly) updatedAt.
C10_PartialUpdate ==
    [][\A p \in Procs :
          (pc[p] = "upd_save" /\ req[p].op = "update" /\ pc'[p] = "done") =>
             LET b == req[p].body
                 id == doc[p].id
             IN
             /\ Len(users') = Len(users)
             /\ \A i \in Ids : i # id => users'[i] = users[i]
             /\ users'[id].googleId = users[id].googleId
             /\ users'[id].email = users[id].email
             /\ b.name = Undefined => users'[id].name = users[id].name
             /\ b.picture = Undefined => users'[id].picture = users[id].picture
             /\ b.isActive = Undefined => users'[id].isActive = users[id].isActive]_vars

\* after a sign-in that stored a picture, the one updateProfile so far has been
\* saved with isActive = false only: name and picture are as they were
C10_Witness ==
    /\ nreq = 2
    /\ \E p \in Procs :
          /\ pc[p] = "done"
          /\ res[p].op = "update"
          /\ res[p].status = 200
          /\ ~users[res[p].userId].isActive
          /\ users[res[p].userId].name = "A"
          /\ users[res[p].userId].picture # Undefined

\* C11: for every user id and e-mail, a token made by generateJwtToken verifies
\* at every instant from its issue up to its expiry and its payload carries
\* exactly that id and e-mail; so does every token a sign-in has handed out,
\* for the record it was issued to.
C11_RoundTrip ==
    /\ \A userId \in 1..MaxUsers, email \in Emails, t0 \in 0..MaxWarmClock :
          LET tok == generateJwtToken(userId, email, t0) IN
          \A t \in t0..MaxWarmClock :
             t < t0 + jwtExpiresIn =>
                /\ verifyJwtToken(tok, t)
                /\ JwtPayload(tok).userId = userId
                /\ JwtPayload(tok).email = email
    /\ \A p \in Procs :
          (pc[p] = "done" /\ res[p].op = "auth" /\ res[p].status = 200) =>
             LET tok == res[p].token IN
             /\ tok \in issued
             /\ now < tok.iat + jwtExpiresIn => verifyJwtToken(tok, now)
             /\ JwtPayload(tok).userId = res[p].userId
             /\ JwtPayload(tok).email = res[p].user[1].email

\* a request has passed the gate at the last instant of the clock, so with a
\* token issued at that instant, and the sign-in's answer is still at hand
C11_Witness ==
    /\ now = MaxWarmClock
    /\ \E p, q \in Procs :
          /\ pc[p] = "done" /\ res[p].op = "signout" /\ res[p].status = 200
          /\ pc[q] = "done" /\ res[q].op = "auth" /\ res[q].status = 200
          /\ res[q].token.iat = MaxWarmClock
          /\ res[p].userId = JwtPayload(res[q].token).userId

\* C12: once the clock is past a token's issued-at plus the validity window,
\* jwt.verify fails on it with TokenExpiredError, and a request that presents
\* it to a route behind the gate is answered 401 and goes no further, although
\* the record it names exists and is active.
C12_Expired ==
    [][\A p \in Procs, tok \in issued :
          (/\ Free(p)
           /\ nreq' = nreq + 1
           /\ now > tok.iat + jwtExpiresIn
           /\ findById(users, tok.userId) # Null
           /\ users[tok.userId].isActive)
          => /\ VerifyError(tok, now) = "TokenExpiredError"
             /\ ~GateLetsThrough(p, tok)
             /\ \A op \in Gated :
                   GateReject(p, op, tok) =>
                      /\ pc'[p] = "done"
                      /\ res'[p].status = 401
                      /\ res'[p].error = "Invalid token"
                      /\ users' = users]_vars

\* the gate has answered 401 "Invalid token" to a token the server signed, two
\* ticks after the only token so far was issued, and the record is active
C12_Witness ==
    /\ now = 2
    /\ nreq = 1
    /\ \A tok \in issued : now > tok.iat + jwtExpiresIn
    /\ \E p \in Procs :
          /\ pc[p] = "done"
          /\ res[p].op \in Gated
          /\ res[p].status = 401
          /\ res[p].error = "Invalid token"
    /\ users[1].isActive

\* C13 as claimed: at any point existsByEmail(e) returns true exactly when some
\* record whose stored e-mail is lowercase(e) is active, and false otherwise,
\* so false for an e-mail whose only record has been deactivated.
C13_Claim ==
    [][\A p \in Procs, e \in Emails :
          CheckUserExists(p, e) =>
             res'[p].exists =
                IF \E i \in Ids : users[i].isActive /\ SameEmail(users[i].email, e)
                  THEN "true" ELSE "false"]_vars

\* C14 as claimed: once the record holding an e-mail has been deactivated, a
\* verified sign-in with a never-seen subject id and that e-mail succeeds and
\* creates a new active record with the e-mail, and the inactive record stays
\* in the collection under its external id.
C14_Claim ==
    [][\A p \in Procs :
          (/\ CreateAnswers(p)
           /\ \A i \in Ids : users[i].googleId # req[p].assertion.sub
           /\ Trim(req[p].assertion.name) # ""
           /\ \E i \in Ids :
                 /\ SameEmail(users[i].email, req[p].assertion.email)
                 /\ ~users[i].isActive)
          => /\ CreatedOne(p)
             /\ SameEmail(users'[Len(users')].email, req[p].assertion.email)]_vars

\* C15 as claimed: when the record of a verified session is absent at the time
\* updateProfile loads it, the call fails with NotFound, answered as HTTP 404,
\* and nothing in the collection changes.
C15_Claim ==
    [][\A p \in Procs :
          (/\ pc[p] = "upd_load"
           /\ req[p].op = "update"
           /\ findById(users, req[p].userId) = Null
           /\ pc'[p] # pc[p])
          => /\ pc'[p] = "done"
             /\ res'[p].status = 404
             /\ users' = users]_vars

\* a step of a sign-in request p
AuthStep(p) ==
    /\ pc'[p] # pc[p]
    /\ req[p].op = "auth" \/ req'[p].op = "auth" \/ res'[p].op = "auth"

\* the sign-in p answers 200 in this step
AuthSucceeds(p) ==
    /\ req[p].op = "auth"
    /\ pc'[p] = "done"
    /\ res'[p].status = 200

\* the records this step created or changed
Written == {i \in 1..Len(users') : i > Len(users) \/ users'[i] # users[i]}

\* C16 as claimed: a successful sign-in creates or modifies exactly one record
\* and changes no other, and no step of any sign-in changes the active flag of
\* an existing record.
C16_Original ==
    [][\A p \in Procs :
          /\ AuthSucceeds(p) => Cardinality(Written) = 1
          /\ AuthStep(p) => \A i \in Ids : users'[i].isActive = users[i].isActive]_vars

\* C16 amended: a successful sign-in either creates one record and changes no
\* existing one, or changes at most the record of its subject id (nothing at
\* all when the name and picture it assigns equal the ones it loaded); no step
\* of any sign-in, successful or not, changes the number of records otherwise
\* or the active flag of an existing record.
C16_Amended ==
    [][\A p \in Procs :
          /\ AuthSucceeds(p) =>
                IF pc[p] = "create_save"
                  THEN /\ Written = {Len(users) + 1}
                       /\ users'[Len(users')].googleId = req[p].assertion.sub
                  ELSE /\ Written \subseteq {doc[p].id}
                       /\ Modified(doc[p].orig, doc[p].cur) = {} => Written = {}
          /\ (AuthStep(p) /\ ~AuthSucceeds(p)) => users' = users
          /\ AuthStep(p) => \A i \in Ids : users'[i].isActive = users[i].isActive]_vars

\* two sign-ins so far, both successful: the first created record 1 at time 0,
\* the second changed it at time 1
C16_Witness ==
    /\ nreq = 2
    /\ Len(users) = 1
    /\ \E tok \in issued : tok.iat = 0
    /\ users[1].updatedAt = 1
    /\ \E p \in Procs :
          /\ pc[p] = "done"
          /\ res[p].op = "auth"
          /\ res[p].status = 200
          /\ res[p].token.iat = 1

\* the save of request p would store an empty name
SavesEmptyName(p) ==
    \/ pc[p] = "create_save" /\ Trim(req[p].assertion.name) = ""
    \/ pc[p] = "upd_save" /\ doc[p].cur.name = ""

\* C17: no step leaves a record with an empty name in the collection; a
\* sign-in whose name claim is missing or empty and an updateProfile whose name
\* is only whitespace fail at their save and leave the collection unchanged.
C17_NameNeverEmpty ==
    [][/\ \A i \in 1..Len(users') : users'[i].name # ""
       /\ \A p \in Procs :
             (SavesEmptyName(p) /\ pc'[p] = "done") =>
                /\ res'[p].status = CatchStatus(req[p].op)
                /\ res'[p].user = Undefined
                /\ users' = users]_vars

\* an updateProfile with a whitespace-only name has failed at its save
C17_Witness ==
    \E p \in Procs :
       /\ pc[p] = "done"
       /\ res[p].op = "update"
       /\ res[p].status = 500
       /\ res[p].error = "User validation failed"
       /\ users[res[p].userId].name # ""

\* C18: optionalAuthentication never rejects: whatever the token (none, badly
\* signed, expired, of an absent or inactive record) and whether or not the
\* lookup fails, it sends no response, calls next() exactly once and changes
\* nothing; it sets req.user only when the token verifies, the lookup answers
\* and the record the token names exists and is active.
C18_Optional ==
    [][\A p \in Procs, tok \in Bearers, fails \in BOOLEAN :
          OptionalAuth(p, tok, fails) =>
             /\ res'[p].status = 0
             /\ res'[p].next = 1
             /\ users' = users
             /\ issued' = issued
             /\ res'[p].userId # Null =>
                   /\ SessionValid(tok)
                   /\ ~fails
                   /\ res'[p].userId = tok.userId]_vars

\* one request went through with req.user set; the record it named has since
\* been deactivated or deleted, and a later request went through without
C18_Witness ==
    \E p, q \in Procs :
       /\ pc[p] = "done" /\ res[p].op = "optional" /\ res[p].next = 1
       /\ pc[q] = "done" /\ res[q].op = "optional" /\ res[q].next = 1
       /\ res[p].userId # Null
       /\ res[q].userId = Null
       /\ ~users[res[p].userId].isActive
       /\ now = 0

\* C19 as claimed: getProfile never answers 200 with a profile whose isActive
\* is false, also when the record is deactivated between the session check and
\* the load.
C19_Claim ==
    [][\A p \in Procs :
          (pc[p] = "get_load" /\ pc'[p] = "done" /\ res'[p].status = 200) =>
             res'[p].user[1].isActive]_vars

====
